---- MODULE Spec2Model ----
(***************************************************************************)
(* sanitize_filenames: the filename sanitizer (src/src/lib.rs) and the     *)
(* renamer / tree walker that applies it to a file system.                 *)
(*                                                                         *)
(* A character is a one-character string; a name or a path string is a     *)
(* sequence of characters, so "a b/c" is <<"a", " ", "b", "/", "c">>.      *)
(* The file system is a table of inodes: each entry has a parent           *)
(* directory, a name, a kind and, for a symlink, the target text.          *)
(***************************************************************************)
EXTENDS Integers, Sequences, FiniteSets, TLC

(***************************************************************************)
(* Bounds of the model.                                                    *)
(***************************************************************************)
\* Entries in the initial file system.
MaxNodes == 3
\* How many names of NameList the initial entries, targets and calls use.
NumNames == 3
\* How many targets of LinkTargetList the initial symlinks use.
NumLinkTargets == 1
\* Targets one run processes.
MaxTargets == 2

(***************************************************************************)
(* Characters                                                              *)
(***************************************************************************)
\* char::is_whitespace, restricted to the ASCII part
Whitespace == {" ", "\t", "\n", "\r", "\f"}

LegacyPunct == {".", ",", "\"", ":", "?", "'", "#", ";", "&", "*", "\\"}

LegacyBrackets == {"(", ")", "[", "]"}

\* the multiplication sign U+00D7
MulSign == "×"

AsciiAlnum ==
    {"a", "b", "c", "d", "e", "f", "g", "h", "i", "j", "k", "l", "m",
     "n", "o", "p", "q", "r", "s", "t", "u", "v", "w", "x", "y", "z",
     "A", "B", "C", "D", "E", "F", "G", "H", "I", "J", "K", "L", "M",
     "N", "O", "P", "Q", "R", "S", "T", "U", "V", "W", "X", "Y", "Z",
     "0", "1", "2", "3", "4", "5", "6", "7", "8", "9"}

Modes == {"Legacy", "Full"}

(***************************************************************************)
(* String helpers (str and Path methods the code calls)                    *)
(***************************************************************************)
Contains(s, ch) == \E i \in 1..Len(s) : s[i] = ch

\* str::ends_with
EndsWith(s, suffix) ==
    /\ Len(suffix) <= Len(s)
    /\ SubSeq(s, Len(s) - Len(suffix) + 1, Len(s)) = suffix

\* index of the last occurrence of ch in s, 0 when there is none
LastIndexOf(s, ch) ==
    IF Contains(s, ch)
    THEN CHOOSE i \in 1..Len(s) :
             /\ s[i] = ch
             /\ \A j \in (i + 1)..Len(s) : s[j] # ch
    ELSE 0

\* str::trim_matches(ch)
TrimMatches(s, ch) ==
    LET keep == {i \in 1..Len(s) : s[i] # ch}
    IN  IF keep = {} THEN <<>>
        ELSE LET lo == CHOOSE i \in keep : \A j \in keep : i <= j
                 hi == CHOOSE i \in keep : \A j \in keep : j <= i
             IN  SubSeq(s, lo, hi)

\* The components of a relative path string (Path::components): the text
\* between separators, without empty components and without "." components
\* other than a leading one.
KeepComponent(rest, last, leading) ==
    IF last = <<>> \/ (last = <<".">> /\ ~leading) THEN rest
    ELSE Append(rest, last)

RECURSIVE Components(_)
ComponentsAt(s, cut) ==
    KeepComponent(IF cut = 0 THEN <<>> ELSE Components(SubSeq(s, 1, cut - 1)),
                  SubSeq(s, cut + 1, Len(s)), cut = 0)

Components(s) ==
    IF s = <<>> THEN <<>> ELSE ComponentsAt(s, LastIndexOf(s, "/"))

\* the final component as Path::file_name gives it ("" for None)
FinalName(c) ==
    IF c = <<>> \/ c[Len(c)] \in {<<".", ".">>, <<".">>} THEN <<>> ELSE c[Len(c)]

\* Path::file_name, as a string
FileName(s) == FinalName(Components(s))

\* a path string without the separators at its end
TrimSeparators(s) ==
    IF \A i \in 1..Len(s) : s[i] = "/" THEN <<>>
    ELSE SubSeq(s, 1, CHOOSE i \in 1..Len(s) :
                         s[i] # "/" /\ \A j \in (i + 1)..Len(s) : s[j] = "/")

ParentAt(s, cut) ==
    IF cut = 0 THEN <<>> ELSE TrimSeparators(SubSeq(s, 1, cut - 1))

\* Path::parent of a relative path, as a string: the text before the final
\* component, without the separators between them
ParentStr(s) == ParentAt(TrimSeparators(s), LastIndexOf(TrimSeparators(s), "/"))

\* PathBuf::push of a relative component
PushPath(buf, comp) ==
    IF buf # <<>> /\ buf[Len(buf)] = "/" THEN buf \o comp
    ELSE buf \o <<"/">> \o comp

\* Path == Path compares component by component
PathEq(p, q) == Components(p) = Components(q)

(***************************************************************************)
(* Component Sanitizer                                                     *)
(***************************************************************************)
has_dot(name) == Contains(name, ".")

is_hidden(name) == name # <<>> /\ name[1] = "."

\* a first pass that treats the multiplication sign like the fixed set
MapChar_mul_to_replacement(ch, replacement, mode) ==
    IF mode = "Legacy"
    THEN IF ch = MulSign \/ ch \in Whitespace \/ ch \in LegacyPunct
            \/ ch \in LegacyBrackets
         THEN replacement
         ELSE ch
    ELSE IF ch \in AsciiAlnum \/ ch = "_" \/ ch = "-" THEN ch
         ELSE replacement

\* the first pass of sanitize_component: one character
MapChar(ch, replacement, mode) ==
    IF mode = "Legacy"
    THEN IF ch = MulSign THEN "x"
         ELSE IF ch \in Whitespace \/ ch \in LegacyPunct THEN replacement
         ELSE IF ch \in LegacyBrackets THEN replacement
         ELSE ch
    ELSE IF ch \in AsciiAlnum \/ ch = "_" \/ ch = "-" THEN ch
         ELSE replacement

\* a second pass that drops nothing
Collapse_keeps_runs(tmp, replacement, prev_was_repl) == tmp

\* the second pass: a replacement character that follows one is dropped
RECURSIVE Collapse(_, _, _)
Collapse(tmp, replacement, prev_was_repl) ==
    IF tmp = <<>> THEN <<>>
    ELSE IF Head(tmp) = replacement
         THEN IF prev_was_repl
              THEN Collapse(Tail(tmp), replacement, TRUE)
              ELSE <<Head(tmp)>> \o Collapse(Tail(tmp), replacement, TRUE)
         ELSE <<Head(tmp)>> \o Collapse(Tail(tmp), replacement, FALSE)

\* a third pass that leaves the mapped extension in the base
StripSuffix_keeps_extension(collapsed, replacement, extension) == collapsed

\* the third pass: a trailing replacement + extension is cut off
StripSuffix(collapsed, replacement, extension) ==
    IF extension # <<>> /\ EndsWith(collapsed, <<replacement>> \o extension)
    THEN SubSeq(collapsed, 1, Len(collapsed) - (1 + Len(extension)))
    ELSE collapsed

\* the last pass: the replacement character trimmed off both ends, unless
\* nothing would be left
TrimEnds(collapsed, trimmed) ==
    IF trimmed = <<>> /\ collapsed # <<>> THEN <<collapsed[1]>> ELSE trimmed

TrimReplacement(collapsed, replacement) ==
    TrimEnds(collapsed, TrimMatches(collapsed, replacement))

sanitize_component(name, replacement, extension, mode) ==
    TrimReplacement(
        StripSuffix(
            Collapse([i \in 1..Len(name) |-> MapChar(name[i], replacement, mode)],
                     replacement, FALSE),
            replacement, extension),
        replacement)

(***************************************************************************)
(* The file system                                                         *)
(***************************************************************************)
Ids == 1..MaxNodes

\* the working directory, parent of every top-level entry
Root == 0

NoNode == -1

Gone == [parent |-> NoNode, name |-> <<>>, kind |-> "none", target |-> <<>>]

\* the entry of directory d called name
Child(f, d, name) ==
    LET hits == {i \in Ids : f[i].kind # "none" /\ f[i].parent = d /\ f[i].name = name}
    IN  IF hits = {} THEN NoNode ELSE CHOOSE i \in hits : TRUE

Children(f, d) == {i \in Ids : f[i].kind # "none" /\ f[i].parent = d}

IsDirNode(f, n) == n = Root \/ (n \in Ids /\ f[n].kind = "dir")

\* Symlinks followed during one lookup before it fails (ELOOP); enough for
\* every chain without a loop in a file system of this size.
SymlinkFuel == 4 * (MaxNodes + 1)

\* Path resolution from directory cur.  A symlink in the middle of the path
\* is always followed, the final one only when follow is TRUE (stat versus
\* lstat); its target text is resolved in the directory that holds it.
RECURSIVE Walk(_, _, _, _, _)
WalkTo(f, cur, n, rest, follow, fuel) ==
    IF n = NoNode THEN NoNode
    ELSE IF f[n].kind = "symlink" /\ (rest # <<>> \/ follow)
         THEN IF fuel = 0 THEN NoNode
              ELSE Walk(f, cur, Components(f[n].target) \o rest, follow, fuel - 1)
    ELSE Walk(f, n, rest, follow, fuel)

Walk(f, cur, comps, follow, fuel) ==
    IF comps = <<>> THEN cur
    ELSE IF ~IsDirNode(f, cur) THEN NoNode
    ELSE IF Head(comps) = <<".">> THEN Walk(f, cur, Tail(comps), follow, fuel)
    ELSE IF Head(comps) = <<".", ".">>
         THEN Walk(f, IF cur = Root THEN Root ELSE f[cur].parent,
                   Tail(comps), follow, fuel)
    ELSE WalkTo(f, cur, Child(f, cur, Head(comps)), Tail(comps), follow, fuel)

\* fs::metadata: the entry the path resolves to, symlinks followed
Stat(f, p) ==
    IF p = <<>> THEN NoNode ELSE Walk(f, Root, Components(p), TRUE, SymlinkFuel)

\* fs::symlink_metadata: the entry itself, a final symlink not followed
Lstat(f, p) ==
    IF p = <<>> THEN NoNode ELSE Walk(f, Root, Components(p), FALSE, SymlinkFuel)

\* Path::exists
Exists(f, p) == Stat(f, p) # NoNode

\* Path::is_dir
is_directory(f, p) == IsDirNode(f, Stat(f, p))

\* file_type.is_dir() && !file_type.is_symlink() on symlink_metadata
IsRealDirNode(f, n) == n \in Ids /\ f[n].kind = "dir"

IsRealDir(f, p) == IsRealDirNode(f, Lstat(f, p))

\* n is d or lies below d
RECURSIVE InSubtree(_, _, _)
InSubtree(f, n, d) ==
    IF n = d THEN TRUE
    ELSE IF n \notin Ids THEN FALSE
    ELSE InSubtree(f, f[n].parent, d)

\* fs::rename (rename(2)): moves the entry at old to new, replacing a
\* non-directory or an empty directory found at new; neither final symlink
\* is followed.  The answer is the new file system, or the failure.
\* Here o is the entry at old, np the directory of new, nn the final name
\* of new and n the entry found there.
RenameOver(f, o, np, nn, n) ==
    IF n = o THEN [ok |-> TRUE, fs |-> f]
    ELSE IF f[o].kind = "dir" /\ InSubtree(f, np, o) THEN [ok |-> FALSE, fs |-> f]
    ELSE IF n # NoNode /\ f[o].kind = "dir"
            /\ (f[n].kind # "dir" \/ Children(f, n) # {}) THEN [ok |-> FALSE, fs |-> f]
    ELSE IF n # NoNode /\ f[o].kind # "dir" /\ f[n].kind = "dir"
    THEN [ok |-> FALSE, fs |-> f]
    ELSE [ok |-> TRUE,
          fs |-> [i \in Ids |->
                    IF i = o THEN [f[o] EXCEPT !.parent = np, !.name = nn]
                    ELSE IF i = n THEN Gone
                    ELSE f[i]]]

RenameInto(f, o, np, nn) ==
    IF o \notin Ids \/ ~IsDirNode(f, np) \/ nn \in {<<".">>, <<".", ".">>}
    THEN [ok |-> FALSE, fs |-> f]
    ELSE RenameOver(f, o, np, nn, Child(f, np, nn))

RenameTo(f, o, nc) ==
    IF nc = <<>> THEN [ok |-> FALSE, fs |-> f]
    ELSE RenameInto(f, o,
                    Walk(f, Root, SubSeq(nc, 1, Len(nc) - 1), TRUE, SymlinkFuel),
                    nc[Len(nc)])

FsRename(f, old, new) == RenameTo(f, Lstat(f, old), Components(new))

(***************************************************************************)
(* Name Classifier and Path Composer                                       *)
(***************************************************************************)
\* a classifier that does not ask whether the path is a directory
has_extension_ignores_directories(f, path_str) ==
    has_dot(path_str) /\ ~is_hidden(path_str)

has_extension(f, path_str) ==
    has_dot(path_str) /\ ~is_directory(f, path_str) /\ ~is_hidden(path_str)

\* rsplit('.').next(): the text after the last '.' of the whole path string
extract_extension(f, path_str) ==
    IF has_extension(f, path_str)
    THEN SubSeq(path_str, LastIndexOf(path_str, ".") + 1, Len(path_str))
    ELSE <<>>

\* the end of sanitized_filename: the extension goes back on
WithExtension(result, extension) ==
    IF extension # <<>>
    THEN (IF result # <<>> THEN result \o <<".">> ELSE result) \o extension
    ELSE result

\* the component goes back under the parent portion of the path string
UnderParent(parent_str, component) ==
    IF parent_str # <<>> /\ parent_str # <<".">>
    THEN PushPath(parent_str, component)
    ELSE component

Compose(input_file, replacement, mode, extension) ==
    WithExtension(
        UnderParent(ParentStr(input_file),
                    sanitize_component(FileName(input_file), replacement,
                                       extension, mode)),
        extension)

sanitized_filename(f, input_file, replacement, mode) ==
    Compose(input_file, replacement, mode, extract_extension(f, input_file))

(***************************************************************************)
(* Renamer                                                                 *)
(***************************************************************************)
\* The end of rename_path: r is what fs::rename answers.  hit says that the
\* fault is what decided the call.
Renamed(f, new, fault, r) ==
    IF ~r.ok
    THEN [fs |-> f, ok |-> FALSE, ret |-> <<>>, outcome |-> "error", hit |-> FALSE]
    ELSE IF fault = "rename"
    THEN [fs |-> f, ok |-> FALSE, ret |-> <<>>, outcome |-> "error", hit |-> TRUE]
    ELSE [fs |-> r.fs, ok |-> TRUE, ret |-> new, outcome |-> "changed", hit |-> FALSE]

\* rename_path without the check of the destination
rename_path_overwrites(f, old, new, dry_run, fault) ==
    IF PathEq(old, new)
    THEN [fs |-> f, ok |-> TRUE, ret |-> new, outcome |-> "same", hit |-> FALSE]
    ELSE IF ~Exists(f, old)
    THEN [fs |-> f, ok |-> TRUE, ret |-> old, outcome |-> "missing", hit |-> FALSE]
    ELSE IF fault = "stat"
    THEN [fs |-> f, ok |-> TRUE, ret |-> old, outcome |-> "missing", hit |-> TRUE]
    ELSE IF dry_run
    THEN [fs |-> f, ok |-> TRUE, ret |-> new, outcome |-> "would", hit |-> FALSE]
    ELSE Renamed(f, new, fault, FsRename(f, old, new))

\* rename_path that renames in a dry run too
rename_path_ignores_dry_run(f, old, new, dry_run, fault) ==
    IF PathEq(old, new)
    THEN [fs |-> f, ok |-> TRUE, ret |-> new, outcome |-> "same", hit |-> FALSE]
    ELSE IF ~Exists(f, old)
    THEN [fs |-> f, ok |-> TRUE, ret |-> old, outcome |-> "missing", hit |-> FALSE]
    ELSE IF fault = "stat"
    THEN [fs |-> f, ok |-> TRUE, ret |-> old, outcome |-> "missing", hit |-> TRUE]
    ELSE IF Exists(f, new) /\ ~PathEq(old, new)
    THEN [fs |-> f, ok |-> TRUE, ret |-> old, outcome |-> "collision", hit |-> FALSE]
    ELSE Renamed(f, new, fault, FsRename(f, old, new))

\* rename_path that hands back old after a rename
rename_path_returns_old(f, old, new, dry_run, fault) ==
    IF PathEq(old, new)
    THEN [fs |-> f, ok |-> TRUE, ret |-> new, outcome |-> "same", hit |-> FALSE]
    ELSE IF ~Exists(f, old)
    THEN [fs |-> f, ok |-> TRUE, ret |-> old, outcome |-> "missing", hit |-> FALSE]
    ELSE IF fault = "stat"
    THEN [fs |-> f, ok |-> TRUE, ret |-> old, outcome |-> "missing", hit |-> TRUE]
    ELSE IF Exists(f, new) /\ ~PathEq(old, new)
    THEN [fs |-> f, ok |-> TRUE, ret |-> old, outcome |-> "collision", hit |-> FALSE]
    ELSE IF dry_run
    THEN [fs |-> f, ok |-> TRUE, ret |-> new, outcome |-> "would", hit |-> FALSE]
    ELSE Renamed(f, old, fault, FsRename(f, old, new))

\* rename_path that looks at the destination before the source
rename_path_checks_new_first(f, old, new, dry_run, fault) ==
    IF PathEq(old, new)
    THEN [fs |-> f, ok |-> TRUE, ret |-> new, outcome |-> "same", hit |-> FALSE]
    ELSE IF Exists(f, new) /\ ~PathEq(old, new)
    THEN [fs |-> f, ok |-> TRUE, ret |-> old, outcome |-> "collision", hit |-> FALSE]
    ELSE IF ~Exists(f, old)
    THEN [fs |-> f, ok |-> TRUE, ret |-> old, outcome |-> "missing", hit |-> FALSE]
    ELSE IF fault = "stat"
    THEN [fs |-> f, ok |-> TRUE, ret |-> old, outcome |-> "missing", hit |-> TRUE]
    ELSE IF dry_run
    THEN [fs |-> f, ok |-> TRUE, ret |-> new, outcome |-> "would", hit |-> FALSE]
    ELSE Renamed(f, new, fault, FsRename(f, old, new))

\* fault is what the environment does to this call: "stat" makes the stat
\* behind old.exists() fail (exists() then answers false), "rename" makes
\* fs::rename fail, "none" leaves the calls to the file system's state.
rename_path(f, old, new, dry_run, fault) ==
    IF PathEq(old, new)
    THEN [fs |-> f, ok |-> TRUE, ret |-> new, outcome |-> "same", hit |-> FALSE]
    ELSE IF ~Exists(f, old)
    THEN [fs |-> f, ok |-> TRUE, ret |-> old, outcome |-> "missing", hit |-> FALSE]
    ELSE IF fault = "stat"
    THEN [fs |-> f, ok |-> TRUE, ret |-> old, outcome |-> "missing", hit |-> TRUE]
    ELSE IF Exists(f, new) /\ ~PathEq(old, new)
    THEN [fs |-> f, ok |-> TRUE, ret |-> old, outcome |-> "collision", hit |-> FALSE]
    ELSE IF dry_run
    THEN [fs |-> f, ok |-> TRUE, ret |-> new, outcome |-> "would", hit |-> FALSE]
    ELSE Renamed(f, new, fault, FsRename(f, old, new))

(***************************************************************************)
(* State                                                                   *)
(***************************************************************************)
VARIABLES
    fs,        \* the file system: Ids -> entry
    cfg,       \* the Config of the run in progress
    status,    \* "idle", "running", "done" (Ok returned), "error" (Err returned)
    stack,     \* call stack of sanitize_directory_tree, innermost frame last
    ntargets,  \* targets of config.targets the loop of run has finished
    target,    \* the path of the outermost call in progress or last made
    ret,       \* the path the outermost call returned, <<>> before it returns
    last,      \* the rename_path call made by the last step
    fault,     \* the environment fault that hit the last step
    decided,   \* history: entries the outermost call has renamed or skipped
    entered,   \* history: directories the outermost call has read
    faulted,   \* history: a fault hit some step of the outermost call
    pre,       \* history: the file system when the outermost call began
    san,       \* the sanitizer called on its own: arguments and results
    cli        \* parse_args: the arguments, the locals of the loop, the result

vars == <<fs, cfg, status, stack, ntargets, target, ret, last, fault,
          decided, entered, faulted, pre, san, cli>>

(***************************************************************************)
(* Inputs                                                                  *)
(***************************************************************************)
NameList ==
    << <<"a", " ", "a">>, <<"a", "_", "a">>, <<"a", ".", "a">>, <<"a">>,
       <<".", "a">>, <<" ", "a">> >>

Names == {NameList[i] : i \in 1..NumNames}

\* what a symlink holds: the name of an entry of its own directory
LinkTargetList == << <<"a", "_", "a">>, <<"a", " ", "a">>, <<"a", ".", "a">> >>

LinkTargets == {LinkTargetList[i] : i \in 1..NumLinkTargets}

NameIndex(name) == CHOOSE i \in 1..NumNames : NameList[i] = name

\* the paths given to a call: an entry of the working directory, or the
\* entry of that name inside a directory
Paths == Names \cup {PushPath(d, NameList[1]) : d \in Names}

Replacements == {"_"}

Faults == {"none", "exists", "stat", "lstat", "readdir", "rename"}

NewEntries(parents) ==
    {[parent |-> p, name |-> n, kind |-> k, target |-> <<>>] :
        p \in parents, n \in Names, k \in {"file", "dir"}}
    \cup
    {[parent |-> p, name |-> n, kind |-> "symlink", target |-> t] :
        p \in parents, n \in Names, t \in LinkTargets}

\* entries are numbered parent before child, siblings by name: one table
\* for each file system
Ordered(prev, e) ==
    \/ prev.parent < e.parent
    \/ prev.parent = e.parent /\ NameIndex(prev.name) < NameIndex(e.name)

\* the file systems of exactly n entries
RECURSIVE Trees(_)
Trees(n) ==
    IF n = 0 THEN {[i \in Ids |-> Gone]}
    ELSE UNION {
            {[t EXCEPT ![n] = e] :
                e \in {x \in NewEntries({Root} \cup {d \in 1..(n - 1) : t[d].kind = "dir"}) :
                          n = 1 \/ Ordered(t[n - 1], x)}}
            : t \in Trees(n - 1)}

InitialFileSystems == UNION {Trees(n) : n \in 1..MaxNodes}

NoCfg == [recursive |-> FALSE, dry_run |-> FALSE, replacement |-> "_", mode |-> "Legacy"]

NoCall == [old |-> <<>>, new |-> <<>>, dry_run |-> FALSE, node |-> NoNode,
           ok |-> TRUE, ret |-> <<>>, outcome |-> "none"]

\* no call of the sanitizer on its own
NoSan == [op |-> "none", input |-> <<>>, replacement |-> "_", mode |-> "Legacy",
          extension |-> <<>>, out |-> <<>>, again |-> <<>>]

\* no call of parse_args
NoCli == [args |-> <<>>, i |-> 1, end_of_opts |-> FALSE, recursive |-> FALSE,
          dry_run |-> FALSE, replacement |-> "_", full_sanitize |-> FALSE,
          targets |-> <<>>, result |-> "none"]

Init ==
    /\ fs \in InitialFileSystems
    /\ cfg = NoCfg
    /\ status = "idle"
    /\ stack = <<>>
    /\ ntargets = 0
    /\ target = <<>>
    /\ ret = <<>>
    /\ last = NoCall
    /\ fault = "none"
    /\ decided = {}
    /\ entered = {}
    /\ faulted = FALSE
    /\ pre = fs
    /\ san = NoSan
    /\ cli = NoCli

(***************************************************************************)
(* Steps                                                                   *)
(***************************************************************************)
\* a rename_path call as the steps record it: r is what the call answered,
\* node the entry found at old
CallRecord(f, old, new, dry_run, r) ==
    [old |-> old, new |-> new, dry_run |-> dry_run, node |-> Lstat(f, old),
     ok |-> r.ok, ret |-> r.ret, outcome |-> r.outcome]

Recorded(f, old, new, dry_run, r) ==
    [fs |-> r.fs, hit |-> r.hit, rec |-> CallRecord(f, old, new, dry_run, r)]

Call(f, old, new, dry_run, flt) ==
    Recorded(f, old, new, dry_run, rename_path(f, old, new, dry_run, flt))

\* rename_path(path, &sanitized_filename(path, ..), dry_run) of the run in
\* progress
SanitizeCall(path, flt) ==
    Call(fs, path, sanitized_filename(fs, path, cfg.replacement, cfg.mode),
         cfg.dry_run, flt)

\* the fault of this step is one that happened in the call
Happened(c, flt) == flt = "none" \/ c.hit

Decide(call) ==
    decided' = IF call.outcome # "none" /\ call.node # NoNode
               THEN decided \cup {call.node} ELSE decided

\* the walk reports a path as missing on its own, with no rename_path call
SkipRecord(node, path) ==
    [old |-> path, new |-> path, dry_run |-> FALSE, node |-> node,
     ok |-> TRUE, ret |-> path, outcome |-> "skipped"]

\* the innermost call returns Ok(v); an outermost call hands v to run
Returns(f2, call, v) ==
    /\ fs' = f2
    /\ last' = IF call.outcome = "skipped" THEN NoCall ELSE call
    /\ Decide(call)
    /\ stack' = SubSeq(stack, 1, Len(stack) - 1)
    /\ status' = status
    /\ IF Len(stack) <= 1
       THEN ret' = v /\ ntargets' = ntargets + 1
       ELSE UNCHANGED <<ret, ntargets>>
    /\ UNCHANGED <<cfg, target, entered, pre>>

\* an Err goes through every `?` up to the caller of run
Fails(call) ==
    /\ fs' = fs
    /\ last' = call
    /\ Decide(call)
    /\ stack' = <<>>
    /\ status' = "error"
    /\ UNCHANGED <<cfg, ntargets, target, ret, entered, pre>>

\* the call c ends the innermost sanitize_directory_tree
ReturnsCall(c) ==
    IF c.rec.ok THEN Returns(c.fs, c.rec, c.rec.ret) ELSE Fails(c.rec)

Frame(path) == [path |-> path, phase |-> "enter", todo |-> {}]

Top == stack[Len(stack)]

\* rename_path called on its own
ApiRenamePath(old, new, dry_run, flt) ==
    /\ status = "idle"
    /\ flt \in {"none", "stat", "rename"}
    /\ \E c \in {Call(fs, old, new, dry_run, flt)} :
          /\ Happened(c, flt)
          /\ fs' = c.fs
          /\ last' = c.rec
          /\ Decide(c.rec)
          /\ status' = IF c.rec.ok THEN "done" ELSE "error"
          /\ ret' = c.rec.ret
    /\ target' = old
    /\ fault' = flt
    /\ faulted' = (faulted \/ flt # "none")
    /\ UNCHANGED <<cfg, stack, ntargets, entered, pre>>
    /\ UNCHANGED <<san, cli>>

\* run(config) begins
RunStart(c) ==
    /\ status = "idle"
    /\ status' = "running"
    /\ cfg' = c
    /\ last' = NoCall
    /\ fault' = "none"
    /\ UNCHANGED <<fs, stack, ntargets, target, ret, decided, entered, faulted, pre>>
    /\ UNCHANGED <<san, cli>>

\* run that walks every target, whatever config.recursive says
RunTarget_always_recursive(t, flt) ==
    /\ status = "running"
    /\ stack = <<>>
    /\ ntargets < MaxTargets
    /\ flt = "none"
    /\ target' = t
    /\ pre' = fs
    /\ fault' = flt
    /\ faulted' = FALSE
    /\ entered' = {}
    /\ stack' = <<Frame(t)>>
    /\ ret' = <<>>
    /\ last' = NoCall
    /\ decided' = {}
    /\ UNCHANGED <<fs, cfg, status, ntargets>>
    /\ UNCHANGED <<san, cli>>

\* one pass of `for target in &config.targets`, up to the call it makes; the
\* list is any list, so its next element is drawn when the loop reaches it
RunTarget(t, flt) ==
    /\ status = "running"
    /\ stack = <<>>
    /\ ntargets < MaxTargets
    /\ flt \in (IF cfg.recursive THEN {"none"} ELSE {"none", "stat", "rename"})
    /\ target' = t
    /\ pre' = fs
    /\ fault' = flt
    /\ faulted' = (flt # "none")
    /\ entered' = {}
    /\ UNCHANGED <<cfg, san, cli>>
    /\ IF cfg.recursive
       THEN /\ stack' = <<Frame(t)>>
            /\ ret' = <<>>
            /\ last' = NoCall
            /\ decided' = {}
            /\ UNCHANGED <<fs, status, ntargets>>
       ELSE \E c \in {SanitizeCall(t, flt)} :
                /\ Happened(c, flt)
                /\ fs' = c.fs
                /\ last' = c.rec
                /\ decided' = IF c.rec.node # NoNode THEN {c.rec.node} ELSE {}
                /\ stack' = <<>>
                /\ ret' = c.rec.ret
                /\ status' = IF c.rec.ok THEN status ELSE "error"
                /\ ntargets' = IF c.rec.ok THEN ntargets + 1 ELSE ntargets

\* the loop of run is over: Ok(()), and the locals of run are gone
RunEnd ==
    /\ status = "running"
    /\ stack = <<>>
    /\ status' = "done"
    /\ last' = NoCall
    /\ fault' = "none"
    /\ target' = <<>>
    /\ ret' = <<>>
    /\ decided' = {}
    /\ entered' = {}
    /\ faulted' = FALSE
    /\ pre' = fs
    /\ UNCHANGED <<fs, cfg, stack, ntargets>>
    /\ UNCHANGED <<san, cli>>

\* sanitize_directory_tree from its first line to the read_dir call, or to
\* its return when the path is missing or no real directory; n is the entry
\* at the path.  The listing is taken as read_dir finds it at the call:
\* entries renamed during the loop are not listed again.
TreeEnterAt(path, n, flt) ==
    IF ~Exists(fs, path)
    THEN flt = "none" /\ Returns(fs, SkipRecord(n, path), path)
    ELSE IF flt = "exists" THEN Returns(fs, SkipRecord(n, path), path)
    ELSE IF flt = "lstat" THEN Fails(NoCall)
    ELSE IF ~IsRealDirNode(fs, n)
    THEN /\ flt \in {"none", "stat", "rename"}
         /\ \E c \in {SanitizeCall(path, flt)} : Happened(c, flt) /\ ReturnsCall(c)
    ELSE IF flt = "readdir" THEN Fails(NoCall)
    ELSE /\ flt = "none"
         /\ stack' = [stack EXCEPT ![Len(stack)] =
                        [path  |-> path, phase |-> "loop",
                         todo  |-> {fs[i].name : i \in Children(fs, n)}]]
         /\ entered' = entered \cup {n}
         /\ last' = NoCall
         /\ UNCHANGED <<fs, cfg, status, ntargets, target, ret, decided, pre>>

TreeEnter(flt) ==
    /\ status = "running"
    /\ stack # <<>>
    /\ Top.phase = "enter"
    /\ TreeEnterAt(Top.path, Lstat(fs, Top.path), flt)
    /\ fault' = flt
    /\ faulted' = (faulted \/ flt # "none")
    /\ UNCHANGED <<san, cli>>

\* one pass of `for entry in fs::read_dir(path)?` on the entry n at
\* child_path; rest is the stack with that entry taken off the list
TreeChildAt(child_path, n, rest, flt) ==
    IF flt \in {"readdir", "lstat"} \/ n = NoNode
    THEN flt \in {"none", "readdir", "lstat"} /\ Fails(NoCall)
    ELSE IF IsRealDirNode(fs, n)
    THEN /\ flt = "none"
         /\ stack' = Append(rest, Frame(child_path))
         /\ last' = NoCall
         /\ UNCHANGED <<fs, cfg, status, ntargets, target, ret, decided, entered, pre>>
    ELSE /\ flt \in {"none", "stat", "rename"}
         /\ \E c \in {SanitizeCall(child_path, flt)} :
               /\ Happened(c, flt)
               /\ IF c.rec.ok
                  THEN /\ fs' = c.fs
                       /\ stack' = rest
                       /\ last' = c.rec
                       /\ Decide(c.rec)
                       /\ UNCHANGED <<cfg, status, ntargets, target, ret, entered, pre>>
                  ELSE Fails(c.rec)

\* read_dir promises no order
TreeChild(flt) ==
    /\ status = "running"
    /\ stack # <<>>
    /\ Top.phase = "loop"
    /\ \E name \in Top.todo :
          TreeChildAt(PushPath(Top.path, name),
                      Lstat(fs, PushPath(Top.path, name)),
                      [stack EXCEPT ![Len(stack)].todo = @ \ {name}], flt)
    /\ fault' = flt
    /\ faulted' = (faulted \/ flt # "none")
    /\ UNCHANGED <<san, cli>>

\* the directory renamed at once, whatever is left of its listing
TreeFinish_before_children(flt) ==
    /\ status = "running"
    /\ stack # <<>>
    /\ Top.phase = "loop"
    /\ flt \in {"none", "stat", "rename"}
    /\ \E c \in {SanitizeCall(Top.path, flt)} : Happened(c, flt) /\ ReturnsCall(c)
    /\ fault' = flt
    /\ faulted' = (faulted \/ flt # "none")
    /\ UNCHANGED <<san, cli>>

\* after the loop: the directory itself is renamed and the call returns
TreeFinish(flt) ==
    /\ status = "running"
    /\ stack # <<>>
    /\ Top.phase = "loop"
    /\ Top.todo = {}
    /\ flt \in {"none", "stat", "rename"}
    /\ \E c \in {SanitizeCall(Top.path, flt)} : Happened(c, flt) /\ ReturnsCall(c)
    /\ fault' = flt
    /\ faulted' = (faulted \/ flt # "none")
    /\ UNCHANGED <<san, cli>>

Configs ==
    [recursive : BOOLEAN, dry_run : BOOLEAN, replacement : Replacements, mode : Modes]

Next ==
    \/ \E old \in Names, new \in Paths, d \in BOOLEAN, flt \in Faults :
          ApiRenamePath(old, new, d, flt)
    \/ \E c \in Configs : RunStart(c)
    \/ \E t \in Paths, flt \in Faults : RunTarget(t, flt)
    \/ RunEnd
    \/ \E flt \in Faults : TreeEnter(flt)
    \/ \E flt \in Faults : TreeChild(flt)
    \/ \E flt \in Faults : TreeFinish(flt)

Spec == Init /\ [][Next]_vars

(***************************************************************************)
(* Claims                                                                  *)
(***************************************************************************)
\* the step just taken made a rename_path call
Called == last'.outcome # "none"

\* entry i is where and what it was
Kept(i) == fs'[i] = fs[i]

\* C1: no entry is ever lost: at every step every entry of the file system
\* is still an entry afterwards, of the same kind and with the same target
\* text, and every entry but the one the step renames stays in its
\* directory under its name (a renamed directory keeps its children); so no
\* rename replaces an entry found at its destination.
C1_NoEntryLost ==
    [][\A i \in Ids :
          fs[i].kind # "none" =>
              /\ fs'[i].kind = fs[i].kind
              /\ fs'[i].target = fs[i].target
              /\ i # last'.node => Kept(i)]_vars

\* C2: a rename_path call with old existing, new existing and old != new
\* leaves the file system as it is, raises no error and returns old.
C2_CollisionSafety ==
    [][(/\ Called
        /\ Exists(fs, last'.old)
        /\ Exists(fs, last'.new)
        /\ ~PathEq(last'.old, last'.new))
       => (fs' = fs /\ last'.ok /\ last'.ret = last'.old)]_vars

C2_Witness ==
    /\ last.outcome = "collision"
    /\ Exists(fs, last.old)
    /\ Exists(fs, last.new)
    /\ Lstat(fs, last.old) # Lstat(fs, last.new)

\* C3: with dry_run = true no step of rename_path, sanitize_directory_tree
\* or run changes the file system.
C3_DryRunFrame ==
    [][((status = "running" /\ cfg.dry_run) \/ (Called /\ last'.dry_run))
       => fs' = fs]_vars

C3_Witness ==
    /\ cfg.dry_run
    /\ cfg.recursive
    /\ stack # <<>>
    /\ last.outcome = "would"

\* the file system that holds nothing but one entry of this name and kind
SoloFs(name, kind) ==
    [i \in Ids |->
        IF i = 1 THEN [parent |-> Root, name |-> name, kind |-> kind, target |-> <<>>]
        ELSE Gone]

\* the sanitized name of an entry: sanitized_filename of its name alone
SanitizedName(f, i) ==
    sanitized_filename(SoloFs(f[i].name, f[i].kind), f[i].name,
                       cfg.replacement, cfg.mode)

\* the entries of the tree below (and with) the directory d
TreeOf(f, d) == {i \in Ids : f[i].kind # "none" /\ InSubtree(f, i, d)}

\* the path of entry i of the tree of the directory at path top
RECURSIVE PathIn(_, _, _, _)
PathIn(f, i, d, top) ==
    IF i = d THEN top ELSE PushPath(PathIn(f, f[i].parent, d, top), f[i].name)

\* the same with every name from the directory down replaced by its
\* sanitized name
RECURSIVE SanitizedPathIn(_, _, _, _)
SanitizedPathIn(f, i, d, top) ==
    IF i = d
    THEN (IF ParentStr(top) = <<>> THEN SanitizedName(f, d)
          ELSE PushPath(ParentStr(top), SanitizedName(f, d)))
    ELSE PushPath(SanitizedPathIn(f, f[i].parent, d, top), SanitizedName(f, i))

\* the outermost sanitize_directory_tree call has returned, Ok or Err
WalkReturned ==
    /\ cfg.recursive
    /\ status \in {"running", "done", "error"}
    /\ target # <<>>
    /\ stack = <<>>

\* C4: when a non-dry-run sanitize_directory_tree(root) has returned, no
\* fault having hit it, on a tree of directories and files in which no two
\* siblings sanitize to the same name (and the sanitized name of the root is
\* free), every entry of the tree is at the path made of the sanitized
\* names from the root down, that path of the root is what the call
\* returned, and no original path whose name had to change is left.
C4_TreeSanitized ==
    LET d    == Lstat(pre, target)
        tree == TreeOf(pre, d)
    IN  (/\ WalkReturned
         /\ ~cfg.dry_run
         /\ ~faulted
         /\ d \in Ids
         /\ pre[d].kind = "dir"
         /\ \A i \in tree : pre[i].kind \in {"dir", "file"}
         /\ \A i, j \in tree :
                (i # j /\ i # d /\ j # d /\ pre[i].parent = pre[j].parent)
                    => SanitizedName(pre, i) # SanitizedName(pre, j)
         /\ \/ SanitizedName(pre, d) = pre[d].name
            \/ Child(pre, pre[d].parent, SanitizedName(pre, d)) = NoNode)
        => (/\ status # "error"
            /\ ret = SanitizedPathIn(pre, d, d, target)
            /\ \A i \in tree :
                  /\ Lstat(fs, SanitizedPathIn(pre, i, d, target)) = i
                  /\ SanitizedName(pre, i) # pre[i].name
                        => Lstat(fs, PathIn(pre, i, d, target)) = NoNode)

\* C5: the walk is post-order.  No entry gets its rename decision (renamed
\* or reported as skipped) after a directory above it that the walk has read
\* got its own, and unless a fault hit the walk every entry below such a
\* directory has had its decision when the directory gets it; while a
\* directory is being read it is still a real directory under the path the
\* walk entered it by, each frame is a child of the frame below it, and once
\* a directory has had its decision no frame of it is left on the stack.
C5_PostOrder ==
    [][/\ \A x \in Ids :
             (x \notin decided /\ x \in decided')
                => \A d \in (decided \cap entered) \ {x} : x \notin TreeOf(fs, d)
       /\ \A d \in Ids :
             (d \in entered /\ d \notin decided /\ d \in decided' /\ ~faulted')
                => \A x \in TreeOf(fs, d) \ {d} : x \in decided
       /\ \A k \in 1..Len(stack') :
             stack'[k].phase = "loop"
                => /\ IsRealDir(fs', stack'[k].path)
                   /\ Lstat(fs', stack'[k].path) \in entered'
                   /\ Lstat(fs', stack'[k].path) \notin decided'
       /\ \A k \in 2..Len(stack') :
             /\ stack'[k - 1].phase = "loop"
             /\ ParentStr(stack'[k].path) = stack'[k - 1].path]_vars

\* a directory holding a directory that holds an entry has had its call
C5_Witness ==
    /\ ~faulted
    /\ \E d \in decided \cap entered :
          \E x \in TreeOf(fs, d) : x # d /\ fs[x].parent # d /\ x \in decided

\* the file system with the symlink n turned into a regular file
AsFile(f, n) == [f EXCEPT ![n].kind = "file", ![n].target = <<>>]

\* the call the walk makes on path when the entry n found there is a
\* regular file
LeafCall(n, path) ==
    Call(AsFile(fs, n), path,
         sanitized_filename(AsFile(fs, n), path, cfg.replacement, cfg.mode),
         cfg.dry_run, "none")

\* the step made the call c on the entry n, with the same effect on it
SameAs(c, n) ==
    /\ last'.node = n
    /\ last'.new = c.rec.new
    /\ last'.outcome = c.rec.outcome
    /\ last'.ok = c.rec.ok
    /\ last'.ret = c.rec.ret
    /\ fs'[n].parent = c.fs[n].parent
    /\ fs'[n].name = c.fs[n].name

\* C6: sanitize_directory_tree never reads a symlink as a directory, and
\* when no fault hits the step in which a symlink gets its decision, that
\* step is the rename_path call a regular file of the same name at the same
\* place would get: same sanitized name, same outcome, same returned path,
\* same place afterwards.
C6_SymlinkAsLeaf ==
    [][/\ \A i \in entered' : fs'[i].kind # "symlink"
       /\ \A n \in Ids :
             (/\ status = "running"
              /\ cfg.recursive
              /\ fs[n].kind = "symlink"
              /\ n \notin decided
              /\ n \in decided'
              /\ fault' = "none")
             => /\ last'.node = n
                /\ SameAs(LeafCall(n, last'.old), n)]_vars

\* C7: a step of run or of sanitize_directory_tree that an I/O failure hits
\* returns the error to the caller of run with the file system as the step
\* found it (nothing is rolled back, nothing more is done), and once the
\* error is returned no step follows.
C7_FailurePropagates ==
    [][/\ status # "error"
       /\ (status = "running" /\ fault' # "none")
             => (status' = "error" /\ fs' = fs /\ stack' = <<>>)]_vars

\* the entry node, found at old before the step, is found at new after it,
\* with its kind, its target text and its children
Moved(node, old, new) ==
    /\ Lstat(fs', old) = NoNode
    /\ Lstat(fs', new) = node
    /\ fs'[node].kind = fs[node].kind
    /\ fs'[node].target = fs[node].target
    /\ \A i \in Ids : fs[i].parent = node => fs'[i] = fs[i]

\* the precondition of C8 for the call just made
C8_Case ==
    /\ Called
    /\ Exists(fs, last'.old)
    /\ ~Exists(fs, last'.new)
    /\ ~PathEq(last'.old, last'.new)

\* the directory that holds the final component of p
ParentDir(f, p) == IF ParentStr(p) = <<>> THEN Root ELSE Stat(f, ParentStr(p))

\* the entry node, found at old before the step, is after it the entry of
\* the directory of new under the final name of new, with its kind, its
\* target text and its children, and old is gone; it is found at new unless
\* it is a symlink (the directory of new may have been reached through it)
MovedInto(node, old, new) ==
    /\ Lstat(fs', old) = NoNode
    /\ fs'[node].parent = ParentDir(fs, new)
    /\ fs'[node].name = FileName(new)
    /\ fs[node].kind # "symlink" => Lstat(fs', new) = node
    /\ fs'[node].kind = fs[node].kind
    /\ fs'[node].target = fs[node].target
    /\ \A i \in Ids : fs[i].parent = node => fs'[i] = fs[i]

\* rename(2) refuses the destination: its directory is missing or no
\* directory, it lies inside the directory to move, or a directory would
\* replace an entry that is no directory
BadDestination(f, node, new) ==
    \/ ~IsDirNode(f, ParentDir(f, new))
    \/ f[node].kind = "dir" /\ InSubtree(f, ParentDir(f, new), node)
    \/ f[node].kind = "dir" /\ Lstat(f, new) # NoNode

\* C8 as stated: when old exists, new does not and old != new, and no
\* fault hits the call, rename_path returns new, and unless dry_run the
\* entry is at new and no longer at old.
C8_RenamesAndReturnsNew ==
    [][(C8_Case /\ fault' = "none")
       => /\ last'.ok
          /\ last'.ret = last'.new
          /\ ~last'.dry_run => Moved(last'.node, last'.old, last'.new)]_vars

\* C8 amended: in that case a dry run returns new and changes nothing;
\* otherwise fs::rename is called: when it succeeds rename_path returns new
\* and the entry is no longer at old but in the directory of new under the
\* final name of new, with its kind, target and children (so at new, unless
\* it is a symlink the path new went through); when it fails (the environment, or a destination rename(2)
\* refuses) the error is returned and nothing has changed.
C8_RenamesWhenPossible ==
    [][(C8_Case /\ fault' # "stat")
       => IF last'.dry_run
          THEN last'.ok /\ last'.ret = last'.new /\ fs' = fs
          ELSE IF last'.ok
          THEN /\ last'.ret = last'.new
               /\ MovedInto(last'.node, last'.old, last'.new)
               /\ ~BadDestination(fs, last'.node, last'.new)
          ELSE /\ fs' = fs
               /\ last'.outcome = "error"
               /\ fault' = "rename" \/ BadDestination(fs, last'.node, last'.new)]_vars

\* a directory with an entry in it has been renamed
C8_Witness ==
    /\ last.outcome = "changed"
    /\ last.node \in Ids
    /\ fs[last.node].kind = "dir"
    /\ Children(fs, last.node) # {}
    /\ Lstat(fs, last.new) = last.node
    /\ last.ret = last.new

\* the three skips of rename_path, in the order of the code, for the call
\* just made: Ok with the file system as it was
C9_Skips ==
    /\ PathEq(last'.old, last'.new)
          => last'.outcome = "same" /\ last'.ok /\ last'.ret = last'.new /\ fs' = fs
    /\ (~PathEq(last'.old, last'.new) /\ ~Exists(fs, last'.old))
          => last'.outcome = "missing" /\ last'.ok /\ last'.ret = last'.old /\ fs' = fs
    /\ (~PathEq(last'.old, last'.new) /\ Exists(fs, last'.old) /\ Exists(fs, last'.new))
          => last'.outcome = "collision" /\ last'.ok /\ last'.ret = last'.old /\ fs' = fs

\* C9 as stated: the three skips, and new returned in every other case
C9_SkipsAndReturnsNew ==
    [][(Called /\ fault' = "none")
       => /\ C9_Skips
          /\ last'.outcome \notin {"same", "missing", "collision"}
                => last'.ok /\ last'.ret = last'.new]_vars

\* C9 amended: the three skips; in every other case a dry run returns new,
\* and a real call returns new when fs::rename succeeds and the error of
\* fs::rename, with nothing changed, when it fails.
C9_SkipOutcomes ==
    [][(Called /\ fault' = "none")
       => /\ C9_Skips
          /\ last'.outcome \notin {"same", "missing", "collision"}
                => /\ last'.dry_run => last'.ok
                   /\ last'.ok => last'.ret = last'.new
                   /\ ~last'.ok => (fs' = fs /\ last'.outcome = "error")]_vars

\* old is missing and new is there: the source is looked at first
C9_Witness ==
    /\ last.outcome = "missing"
    /\ ~PathEq(last.old, last.new)
    /\ Exists(fs, last.new)
    /\ last.ret = last.old

\* C10: in a run with recursive = false no directory is walked, and every
\* entry other than the target itself keeps its name and its directory (the
\* entries of a renamed directory stay its entries under their names).
C10_OnlyTargets ==
    [][(status = "running" /\ ~cfg.recursive)
       => /\ stack' = <<>>
          /\ entered' = {}
          /\ \A i \in Ids :
                (i # Lstat(fs, target') /\ fs'[i].kind # "none") => Kept(i)]_vars

\* a directory with an entry in it was a target and has been renamed
C10_Witness ==
    /\ status = "running"
    /\ ~cfg.recursive
    /\ last.outcome = "changed"
    /\ last.node \in Ids
    /\ fs[last.node].kind = "dir"
    /\ \E i \in Children(fs, last.node) : pre[i] = fs[i]

(***************************************************************************)
(* The sanitizer called on its own                                         *)
(*                                                                         *)
(* sanitized_filename, sanitize_component and the mapping pass are         *)
(* functions of their arguments and of what is_dir answers.  SanSpec draws *)
(* the arguments and applies them: an input string, a replacement          *)
(* character, a mode, and a file system in which the input path names a    *)
(* file or a directory.                                                    *)
(***************************************************************************)
\* Length of the input strings.
MaxLen == 4
\* How many characters of CharList the input strings are made of.
NumChars == 6
\* Length of the extension argument given to sanitize_component.
MaxExtLen == 1

\* a letter, the dot, the default replacement, whitespace, the separator, a
\* non-ASCII letter, the hyphen and the multiplication sign
CharList == <<"a", ".", "_", " ", "/", "é", "-", MulSign>>

Chars == {CharList[i] : i \in 1..NumChars}

RECURSIVE Strings(_)
Strings(n) ==
    IF n = 0 THEN {<<>>}
    ELSE Strings(n - 1) \cup {Append(s, ch) : s \in Strings(n - 1), ch \in Chars}

\* a relative path in normal form: no empty component, no "." component
\* after the first
NormalPath(s) ==
    /\ s = <<>> \/ (s[1] # "/" /\ s[Len(s)] # "/")
    /\ \A i \in 1..(Len(s) - 1) :
          s[i] = "/" =>
             /\ s[i + 1] # "/"
             /\ ~(s[i + 1] = "." /\ (i + 1 = Len(s) \/ s[i + 2] = "/"))

\* inputs of the assertions of sanitized_basic_cases and
\* sanitized_trims_edge_replacements
HelloWorldTxt ==
    <<"H", "e", "l", "l", "o", " ", "W", "o", "r", "l", "d", ".", "t", "x",
      "t">>

HelloPunctWav ==
    <<"h", "e", "l", "l", "o", "?", " ", "&", "&", "*", "(", ")", "#", "@",
      "+", " ", "w", "o", "r", "l", "d", ".", "w", "a", "v">>

UnderscoredMd ==
    <<"_", "N", "a", "m", "e", "_", ".", "m", "d">>

AugustGoldWav ==
    <<"A", "u", "g", "u", "s", "t", " ", "G", "o", "l", "d", " ", "Q", "&",
      "A", " ", "A", "u", "d", "i", "o", ".", "m", "4", "a", ".", "w", "a",
      "v">>

\* a file inside a directory whose name has a dot
DottedDirFile == <<"a", ".", "a", "/", "a", " ", "a">>

\* every character the Legacy arms of the mapping pass name
FixedSetText ==
    <<" ", "\t", "\n", "\r", "\f", ".", ",", "\"", ":", "?", "'", "#", ";",
      "&", "*", "\\", "(", ")", "[", "]", "×">>

Literals ==
    {<<MulSign>>, HelloWorldTxt, HelloPunctWav, UnderscoredMd, AugustGoldWav,
     DottedDirFile, FixedSetText}

SanInputs == {s \in Strings(MaxLen) : NormalPath(s)} \cup Literals

\* a valid replacement is any one character but the separator
SanReplacements == {"_", "-", ".", MulSign}

SanExtensions == Strings(MaxExtLen)

\* the file system in which the path names an entry of this kind, every
\* component before the last a directory; the empty one when the path has
\* "." or ".." components or more components than the table holds
ChainFs(c, kind) ==
    IF Len(c) \in 1..MaxNodes /\ \A i \in 1..Len(c) : c[i] \notin {<<".">>, <<".", ".">>}
    THEN [i \in Ids |->
            IF i <= Len(c)
            THEN [parent |-> i - 1, name |-> c[i],
                  kind |-> IF i < Len(c) THEN "dir" ELSE kind, target |-> <<>>]
            ELSE Gone]
    ELSE [i \in Ids |-> Gone]

PathFs(path, kind) == ChainFs(Components(path), kind)

SanInit ==
    /\ cfg = NoCfg
    /\ status = "idle"
    /\ stack = <<>>
    /\ ntargets = 0
    /\ target = <<>>
    /\ ret = <<>>
    /\ last = NoCall
    /\ fault = "none"
    /\ decided = {}
    /\ entered = {}
    /\ faulted = FALSE
    /\ cli = NoCli
    /\ \E s \in SanInputs, r \in SanReplacements, m \in Modes, k \in {"file", "dir"} :
          /\ fs = PathFs(s, k)
          /\ pre = PathFs(s, k)
          /\ san = [NoSan EXCEPT !.op = "input", !.input = s,
                                 !.replacement = r, !.mode = m]

SanFrame ==
    UNCHANGED <<fs, cfg, status, stack, ntargets, target, ret, last, fault,
                decided, entered, faulted, pre, cli>>

\* the first pass of sanitize_component over a whole name
MapName(name, replacement, mode) ==
    [i \in 1..Len(name) |-> MapChar(name[i], replacement, mode)]

\* sanitized_filename(input, replacement, mode)
CallSanitizedFilename ==
    /\ san.op = "input"
    /\ san' = [san EXCEPT
                  !.op = "sanitized_filename",
                  !.extension = extract_extension(fs, san.input),
                  !.out = sanitized_filename(fs, san.input, san.replacement, san.mode)]
    /\ SanFrame

\* sanitized_filename called on what it returned
CallSanitizedFilenameAgain ==
    /\ san.op = "sanitized_filename"
    /\ san' = [san EXCEPT
                  !.op = "again",
                  !.again = sanitized_filename(fs, san.out, san.replacement, san.mode)]
    /\ SanFrame

\* sanitize_component(input, replacement, extension, mode)
CallSanitizeComponent(extension) ==
    /\ san.op = "input"
    /\ san' = [san EXCEPT
                  !.op = "sanitize_component",
                  !.extension = extension,
                  !.out = sanitize_component(san.input, san.replacement,
                                             extension, san.mode)]
    /\ SanFrame

\* sanitize_component called on what it returned, same other arguments
CallSanitizeComponentAgain ==
    /\ san.op = "sanitize_component"
    /\ san' = [san EXCEPT
                  !.op = "component_again",
                  !.again = sanitize_component(san.out, san.replacement,
                                               san.extension, san.mode)]
    /\ SanFrame

\* the mapping pass alone
CallMapName ==
    /\ san.op = "input"
    /\ san' = [san EXCEPT
                  !.op = "map",
                  !.out = MapName(san.input, san.replacement, san.mode)]
    /\ SanFrame

SanNext ==
    \/ CallSanitizedFilename
    \/ CallSanitizedFilenameAgain
    \/ \E e \in SanExtensions : CallSanitizeComponent(e)
    \/ CallSanitizeComponentAgain
    \/ CallMapName

SanSpec == SanInit /\ [][SanNext]_vars

(***************************************************************************)
(* Claims about the sanitizer                                              *)
(***************************************************************************)
\* sanitized_filename has returned
Sanitized == san.op \in {"sanitized_filename", "again"}

\* out is a name put under parent_str
UnderSameParent(parent_str, out) ==
    /\ Len(out) > Len(parent_str)
    /\ SubSeq(out, 1, Len(parent_str) + 1) = parent_str \o <<"/">>
    /\ \A i \in (Len(parent_str) + 2)..Len(out) : out[i] # "/"

\* C11: when the parent portion of the input path is neither empty nor ".",
\* the path sanitized_filename returns has the same parent portion: only
\* the final component differs.
C11_ParentKept ==
    (Sanitized /\ ParentStr(san.input) \notin {<<>>, <<".">>})
        => UnderSameParent(ParentStr(san.input), san.out)

\* C12: in Full mode sanitized_filename is idempotent on non-directory
\* paths: called on what it returned, it returns the same path, whatever
\* the replacement character.
C12_FullIdempotent ==
    (/\ san.op = "again"
     /\ san.mode = "Full"
     /\ ~is_directory(fs, san.input)
     /\ ~is_directory(fs, san.out))
        => san.again = san.out

\* C13: a path whose final component starts with '.' ('.bashrc',
\* 'dir/.gitignore') is not given an extension: extract_extension returns
\* the empty string for it, with or without a directory prefix.
C13_HiddenNoExtension ==
    (Sanitized /\ is_hidden(FileName(san.input))) => san.extension = <<>>

\* the text after the last separator
FinalComponent(s) == SubSeq(s, LastIndexOf(s, "/") + 1, Len(s))

Whitelisted(ch, replacement) ==
    ch \in AsciiAlnum \/ ch = "_" \/ ch = "-" \/ ch = replacement

\* C14: in Full mode every character of the final component of the path
\* sanitized_filename returns is an ASCII letter or digit, '_', '-', the
\* replacement character, or the one '.' between base and extension.
C14_FullWhitelist ==
    (Sanitized /\ san.mode = "Full") =>
        \E dot \in 0..Len(FinalComponent(san.out)) :
            /\ dot # 0 => FinalComponent(san.out)[dot] = "."
            /\ \A i \in 1..Len(FinalComponent(san.out)) :
                  i # dot => Whitelisted(FinalComponent(san.out)[i], san.replacement)

\* a file name split at its last '.'
Stem(name) == SubSeq(name, 1, LastIndexOf(name, ".") - 1)

Ext(name) == SubSeq(name, LastIndexOf(name, ".") + 1, Len(name))

RoundTrip(parent_str, name, replacement, mode) ==
    UnderParent(parent_str,
                sanitize_component(Stem(name), replacement, <<>>, mode)
                    \o <<".">> \o Ext(name))

C15_Case ==
    /\ Sanitized
    /\ ~is_directory(fs, san.input)
    /\ ~is_hidden(san.input)
    /\ ~is_hidden(FileName(san.input))
    /\ has_dot(FileName(san.input))

\* C15: extension round trip.  For a path that is no directory and not
\* hidden, whose final component is stem + '.' + ext with ext the text after
\* its last '.', sanitized_filename returns parent + B + '.' + ext, B being
\* sanitize_component(stem, r, "", mode): the extension is put back once and
\* is not repeated inside the base.
C15_ExtensionRoundTrip ==
    C15_Case =>
        san.out = RoundTrip(ParentStr(san.input), FileName(san.input),
                            san.replacement, san.mode)

\* sanitize_component has returned
ComponentSanitized == san.op = "sanitize_component"

\* C16: what sanitize_component returns neither starts nor ends with the
\* replacement character, unless the whole input collapses to nothing, and
\* then it is exactly one replacement character: a name that is not empty
\* is never sanitized to the empty string.  For every name, replacement,
\* extension and mode.
C16_TrimmedOrSingle ==
    (ComponentSanitized /\ san.input # <<>>) =>
        \/ san.out = <<san.replacement>>
        \/ /\ san.out # <<>>
           /\ san.out[1] # san.replacement
           /\ san.out[Len(san.out)] # san.replacement

\* C17: what sanitize_component returns holds no two replacement characters
\* in a row, for every name, replacement, extension and mode.
C17_NoRuns ==
    ComponentSanitized =>
        \A i \in 1..(Len(san.out) - 1) :
            ~(san.out[i] = san.replacement /\ san.out[i + 1] = san.replacement)

\* a name with a run of mapped characters inside it has been sanitized, and
\* the run is one replacement character in the result
C17_Witness ==
    /\ ComponentSanitized
    /\ \E i \in 2..(Len(san.input) - 2) :
          /\ MapChar(san.input[i], san.replacement, san.mode) = san.replacement
          /\ MapChar(san.input[i + 1], san.replacement, san.mode) = san.replacement
          /\ san.input[i - 1] = "a"
          /\ san.input[i + 2] = "a"
    /\ san.out = <<"a", san.replacement, "a">>

\* sanitized_filename has returned for a directory with a dotted name
C18_Case == Sanitized /\ is_directory(fs, san.input) /\ has_dot(FileName(san.input))

\* C18: a path that resolves to a directory has no extension.  For an
\* existing directory whose name holds a '.', extract_extension returns the
\* empty string and sanitized_filename sanitizes the whole name as one base:
\* the '.' is mapped like any other character and nothing is put back after
\* a dot.
C18_DirectoryNoExtension ==
    C18_Case =>
        /\ san.extension = <<>>
        /\ FinalComponent(san.out) =
              sanitize_component(FileName(san.input), san.replacement, <<>>, san.mode)
        /\ Contains(FinalComponent(san.out), ".") => san.replacement = "."

\* the directory 'a.a' has been sanitized to 'a_a'
C18_Witness ==
    /\ C18_Case
    /\ san.input = <<"a", ".", "a">>
    /\ san.replacement = "_"
    /\ san.out = <<"a", "_", "a">>

\* the characters the Legacy mapping names: whitespace and
\* . , " : ? ' # ; & * \ ( ) [ ]
FixedSet == Whitespace \cup LegacyPunct \cup LegacyBrackets

MapPassDone == san.op = "map" /\ san.mode = "Legacy"

\* C19 as stated: in Legacy mode the mapping pass sends every character of
\* the fixed set and the multiplication sign to the replacement character
\* and leaves every other character unchanged.
C19_FixedSetAndMulToReplacement ==
    MapPassDone =>
        /\ Len(san.out) = Len(san.input)
        /\ \A i \in 1..Len(san.input) :
              san.out[i] = IF san.input[i] \in FixedSet \cup {MulSign}
                           THEN san.replacement
                           ELSE san.input[i]

\* C19: in Legacy mode the mapping pass sends every character of the fixed
\* set to the replacement character, the multiplication sign to the letter
\* 'x', and leaves every other character unchanged.
C19_FixedSetToReplacement ==
    MapPassDone =>
        /\ Len(san.out) = Len(san.input)
        /\ \A i \in 1..Len(san.input) :
              san.out[i] = IF san.input[i] \in FixedSet THEN san.replacement
                           ELSE IF san.input[i] = MulSign THEN "x"
                           ELSE san.input[i]

\* the mapping pass has run over every character of the fixed set and the
\* multiplication sign
C19_Witness ==
    /\ MapPassDone
    /\ san.input = FixedSetText
    /\ san.replacement = "_"
    /\ san.out[Len(san.out)] = "x"
    /\ \A i \in 1..(Len(san.out) - 1) : san.out[i] = "_"

\* what the assertions of sanitized_basic_cases and
\* sanitized_trims_edge_replacements expect for an input
Expected(input) ==
    IF input = HelloWorldTxt THEN
        <<"H", "e", "l", "l", "o", "_", "W", "o", "r", "l", "d", ".", "t",
          "x", "t">>
    ELSE IF input = HelloPunctWav THEN
        <<"h", "e", "l", "l", "o", "_", "@", "+", "_", "w", "o", "r", "l",
          "d", ".", "w", "a", "v">>
    ELSE IF input = <<MulSign>> THEN
        <<"x">>
    ELSE IF input = UnderscoredMd THEN
        <<"N", "a", "m", "e", ".", "m", "d">>
    ELSE IF input = AugustGoldWav THEN
        <<"A", "u", "g", "u", "s", "t", "_", "G", "o", "l", "d", "_", "Q",
          "_", "A", "_", "A", "u", "d", "i", "o", "_", "m", "4", "a", ".",
          "w", "a", "v">>
    ELSE input

LiteralCase ==
    /\ Sanitized
    /\ san.replacement = "_"
    /\ san.mode = "Legacy"
    /\ ~is_directory(fs, san.input)
    /\ san.input \in {HelloWorldTxt, HelloPunctWav, <<MulSign>>, UnderscoredMd,
                      AugustGoldWav}

\* C20: with the replacement '_' in Legacy mode, on paths that are no
\* directories, sanitized_filename returns "Hello_World.txt" for
\* "Hello World.txt", "hello_@+_world.wav" for "hello? &&*()#@+ world.wav",
\* "x" for the multiplication sign, "Name.md" for "_Name_.md" and
\* "August_Gold_Q_A_Audio_m4a.wav" for "August Gold Q&A Audio.m4a.wav".
C20_Literals == LiteralCase => san.out = Expected(san.input)

\* the punctuation scenario has been sanitized to what is expected
C20_Witness ==
    /\ LiteralCase
    /\ san.input = HelloPunctWav
    /\ san.out = Expected(HelloPunctWav)
    /\ san.out # san.input

\* sanitize_component has been called on its own Legacy result, no extension
C24_Case ==
    /\ san.op = "component_again"
    /\ san.mode = "Legacy"
    /\ san.extension = <<>>

\* C24: in Legacy mode with an empty extension sanitize_component is
\* idempotent for every name and every valid replacement character (any one
\* character but '/'): called on what it returned, it returns the same.
C24_LegacyIdempotent == C24_Case => san.again = san.out

(***************************************************************************)
(* Argument parsing                                                        *)
(*                                                                         *)
(* parse_args, one pass of its while loop at a time, over a list of        *)
(* arguments drawn from ArgList.  An argument is a sequence of characters  *)
(* like every string of the model.                                         *)
(***************************************************************************)
\* Arguments on one command line.
MaxArgs == 4
\* How many arguments of ArgList the command lines are made of.
NumArgs == 15

ShortHelp == <<"-", "h">>

LongHelp == <<"-", "-", "h", "e", "l", "p">>

ShortRecursive == <<"-", "r">>

LongRecursive == <<"-", "-", "r", "e", "c", "u", "r", "s", "i", "v", "e">>

ShortDryRun == <<"-", "n">>

LongDryRun == <<"-", "-", "d", "r", "y", "-", "r", "u", "n">>

ShortFull == <<"-", "F">>

LongFull ==
    <<"-", "-", "f", "u", "l", "l", "-", "s", "a", "n", "i", "t", "i", "z", "e">>

ShortReplacement == <<"-", "c">>

LongReplacement ==
    <<"-", "-", "r", "e", "p", "l", "a", "c", "e", "m", "e", "n", "t">>

LongReplacementEq ==
    <<"-", "-", "r", "e", "p", "l", "a", "c", "e", "m", "e", "n", "t", "=">>

EndOfOpts == <<"-", "-">>

LoneDash == <<"-">>

CurDir == <<".">>

ParentDirArg == <<".", ".">>

\* str::starts_with
StartsWith(s, prefix) ==
    Len(prefix) <= Len(s) /\ SubSeq(s, 1, Len(prefix)) = prefix

\* the options without a value, the options with one (apart and attached), the
\* terminator, the lone dash, the dot names, two plain names, an attached value
\* of two characters and an unknown option
ArgList ==
    << ShortRecursive, EndOfOpts, <<"a">>, CurDir, ShortReplacement, <<"-", "x">>,
       LoneDash, <<"_">>, ShortReplacement \o <<"-">>, LongDryRun, ParentDirArg,
       LongReplacementEq \o <<"-">>, ShortHelp, LongReplacement,
       ShortReplacement \o <<"a", "b">>, ShortFull, ShortDryRun, LongRecursive,
       LongFull, LongHelp, LongReplacementEq >>

Args == {ArgList[k] : k \in 1..NumArgs}

RECURSIVE CommandLines(_)
CommandLines(n) ==
    IF n = 0 THEN {<<>>}
    ELSE CommandLines(n - 1)
            \cup {Append(l, a) : l \in CommandLines(n - 1), a \in Args}

ArgInit ==
    /\ fs = [k \in Ids |-> Gone]
    /\ pre = [k \in Ids |-> Gone]
    /\ cfg = NoCfg
    /\ status = "idle"
    /\ stack = <<>>
    /\ ntargets = 0
    /\ target = <<>>
    /\ ret = <<>>
    /\ last = NoCall
    /\ fault = "none"
    /\ decided = {}
    /\ entered = {}
    /\ faulted = FALSE
    /\ san = NoSan
    /\ \E a \in CommandLines(MaxArgs) :
          cli = [NoCli EXCEPT !.args = a, !.result = "parsing"]

ArgFrame ==
    UNCHANGED <<fs, cfg, status, stack, ntargets, target, ret, last, fault,
                decided, entered, faulted, pre, san>>

\* Ok(ch) or Err of validate_replacement
validate_replacement(s) ==
    IF s = <<>> THEN [ok |-> FALSE, ch |-> "_"]
    ELSE IF Len(s) > 1 THEN [ok |-> FALSE, ch |-> "_"]
    ELSE IF s[1] = "/" THEN [ok |-> FALSE, ch |-> "_"]
    ELSE [ok |-> TRUE, ch |-> s[1]]

\* a push that leaves nothing out
PushTarget_keeps_dots(targets, arg) == Append(targets, arg)

\* if arg != "." && arg != ".." { targets.push(arg.clone()) }
PushTarget(targets, arg) ==
    IF arg # CurDir /\ arg # ParentDirArg THEN Append(targets, arg) ELSE targets

\* replacement = validate_replacement(value)?; i += step
SetReplacement(c, v, step) ==
    IF v.ok THEN [c EXCEPT !.replacement = v.ch, !.i = @ + step]
    ELSE [c EXCEPT !.result = "error"]

\* match arg.as_str()
ParseOption(c, arg) ==
    IF arg \in {ShortHelp, LongHelp} THEN [c EXCEPT !.result = "help"]
    ELSE IF arg \in {ShortRecursive, LongRecursive}
    THEN [c EXCEPT !.recursive = TRUE, !.i = @ + 1]
    ELSE IF arg \in {ShortDryRun, LongDryRun}
    THEN [c EXCEPT !.dry_run = TRUE, !.i = @ + 1]
    ELSE IF arg \in {ShortFull, LongFull}
    THEN [c EXCEPT !.full_sanitize = TRUE, !.i = @ + 1]
    ELSE IF arg \in {ShortReplacement, LongReplacement}
    THEN IF c.i + 1 > Len(c.args) THEN [c EXCEPT !.result = "error"]
         ELSE SetReplacement(c, validate_replacement(c.args[c.i + 1]), 2)
    ELSE IF StartsWith(arg, ShortReplacement)
    THEN IF Len(arg) = Len(ShortReplacement) THEN [c EXCEPT !.result = "error"]
         ELSE SetReplacement(
                 c, validate_replacement(
                        SubSeq(arg, Len(ShortReplacement) + 1, Len(arg))), 1)
    ELSE IF StartsWith(arg, LongReplacementEq)
    THEN IF Len(arg) = Len(LongReplacementEq) THEN [c EXCEPT !.result = "error"]
         ELSE SetReplacement(
                 c, validate_replacement(
                        SubSeq(arg, Len(LongReplacementEq) + 1, Len(arg))), 1)
    ELSE [c EXCEPT !.result = "error"]

\* the body of the while loop on args[i]
ParseStep(c, arg) ==
    IF c.end_of_opts
    THEN [c EXCEPT !.targets = PushTarget(@, arg), !.i = @ + 1]
    ELSE IF arg = EndOfOpts THEN [c EXCEPT !.end_of_opts = TRUE, !.i = @ + 1]
    ELSE IF ~StartsWith(arg, LoneDash) \/ arg = LoneDash
    THEN [c EXCEPT !.targets = PushTarget(@, arg), !.i = @ + 1]
    ELSE ParseOption(c, arg)

\* one pass of `while i < args.len()`
ParseArg ==
    /\ cli.result = "parsing"
    /\ cli.i <= Len(cli.args)
    /\ cli' = ParseStep(cli, cli.args[cli.i])
    /\ ArgFrame

\* the loop is over: Ok(Config { .. })
ParseEnd ==
    /\ cli.result = "parsing"
    /\ cli.i > Len(cli.args)
    /\ cli' = [cli EXCEPT !.result = "ok"]
    /\ ArgFrame

ArgNext == ParseArg \/ ParseEnd

ArgSpec == ArgInit /\ [][ArgNext]_vars

(***************************************************************************)
(* Claims about parse_args                                                 *)
(***************************************************************************)
\* the argument is kept as a target unless it is "." or ".."
TargetOf(arg) == IF arg \in {CurDir, ParentDirArg} THEN <<>> ELSE <<arg>>

\* The arguments of a command line from position k on that are no options,
\* no option values and no dot names: after the terminator every argument,
\* before it the arguments that do not start with '-' and the lone '-'.
RECURSIVE TargetsFrom(_, _, _)
TargetsFrom(args, k, after) ==
    IF k > Len(args) THEN <<>>
    ELSE IF after THEN TargetOf(args[k]) \o TargetsFrom(args, k + 1, TRUE)
    ELSE IF args[k] = EndOfOpts THEN TargetsFrom(args, k + 1, TRUE)
    ELSE IF args[k] \in {ShortReplacement, LongReplacement}
    THEN TargetsFrom(args, k + 2, FALSE)
    ELSE IF args[k][1] = "-" /\ args[k] # LoneDash
    THEN TargetsFrom(args, k + 1, FALSE)
    ELSE TargetOf(args[k]) \o TargetsFrom(args, k + 1, FALSE)

\* C21: whenever parse_args succeeds, Config.targets holds, in their order,
\* exactly the arguments that are no options or option values and are not
\* "." or "..": before "--" the arguments that do not start with '-' and the
\* lone "-", after "--" every argument, even one that starts with '-'.
C21_Targets ==
    cli.result = "ok" => cli.targets = TargetsFrom(cli.args, 1, FALSE)

\* parse_args has succeeded on a command line with an option and its value,
\* the terminator and a dash-prefixed target after it
C21_Witness ==
    /\ cli.result = "ok"
    /\ cli.args = <<ShortReplacement, <<"a">>, EndOfOpts, ShortRecursive>>
    /\ cli.targets = <<ShortRecursive>>
    /\ cli.replacement = "a"
    /\ ~cli.recursive

(***************************************************************************)
(* Claims about the walk as a whole                                        *)
(***************************************************************************)
\* the step reads a directory: the innermost frame goes from its first line
\* into its loop
EntersDirectory ==
    /\ status = "running"
    /\ stack # <<>>
    /\ Top.phase = "enter"
    /\ Len(stack') = Len(stack)
    /\ stack'[Len(stack')].phase = "loop"

\* the step is one of a walk and makes a rename_path call on an entry
DecidesEntry ==
    /\ status = "running"
    /\ stack # <<>>
    /\ Called
    /\ last'.node # NoNode

\* C22: sanitize_directory_tree terminates on every finite tree, trees with
\* symlinks that form cycles or point to directories above them included:
\* in one outermost call each real directory is entered at most once and
\* each entry gets at most one rename decision.
C22_AtMostOnce ==
    [][/\ EntersDirectory => Lstat(fs, Top.path) \notin entered
       /\ DecidesEntry => last'.node \notin decided]_vars

\* What the dry-run walk of the same file system, target and options does at
\* a path: a dry run changes nothing, so each of its rename_path calls is
\* made on the file system the walk began with.
DryCall(path) ==
    Call(pre, path, sanitized_filename(pre, path, cfg.replacement, cfg.mode),
         TRUE, "none").rec

\* the call of the walk that renames and the call of the dry-run walk at the
\* same path report the same change and return the same path
SameReport(dry, call) ==
    /\ (dry.outcome = "would") = (call.outcome = "changed")
    /\ dry.outcome = "would" => dry.new = call.new
    /\ dry.ret = call.ret

\* the step is a rename_path call of a walk that renames, no fault so far
C23_Case ==
    /\ status = "running"
    /\ stack # <<>>
    /\ ~cfg.dry_run
    /\ ~faulted'
    /\ Called

\* C23: for the same initial file system, target and options the dry-run
\* walk reports "Would change old to new" for exactly the pairs the walk
\* that renames reports as "Changing", and both return the same path.
C23_DryRunAgrees ==
    [][C23_Case => SameReport(DryCall(last'.old), last')]_vars

====
